---- MODULE Spec2Model ----
(***************************************************************************)
(* Model of backend/tts_engine.py: TTSEngine.generate_audio_file, the      *)
(* synthesis-orchestration core of Voxia.  Each request is an asyncio task *)
(* that yields control at two awaits only: edge_tts.list_voices() and      *)
(* communicate.save(path).  Everything between two awaits runs without     *)
(* interleaving, so one action models one resumption of the coroutine.     *)
(***************************************************************************)
EXTENDS Integers, Sequences, FiniteSets, TLC

(***************************************************************************)
(* Bounds of the model.                                                    *)
(***************************************************************************)
NumReqs == 2      \* concurrent requests (tasks)
MaxSize == 1      \* largest number of bytes the provider writes
MaxCat  == 3      \* longest catalog list_voices() returns

Reqs  == 1..NumReqs
\* names mkstemp can pick in output_dir: a request allocates once, so one is always free
Paths == 1..NumReqs
NoPath == 0

(***************************************************************************)
(* Voices.  A Locale "ru-RU" is kept as the list of its subtags, which is  *)
(* what locale.split("-") yields.                                          *)
(***************************************************************************)
None == "<None>"
DefaultVoice == "ru-RU-DmitryNeural"
NotARealVoice == "not-a-real-voice"

Dmitry   == [ShortName |-> "ru-RU-DmitryNeural",   Locale |-> <<"ru", "RU">>]
Svetlana == [ShortName |-> "ru-RU-SvetlanaNeural", Locale |-> <<"ru", "RU">>]
Ostap    == [ShortName |-> "uk-UA-OstapNeural",    Locale |-> <<"uk", "UA">>]
Xiaoxiao == [ShortName |-> "zh-CN-XiaoxiaoNeural", Locale |-> <<"zh", "CN">>]
Salma    == [ShortName |-> "ar-EG-SalmaNeural",    Locale |-> <<"ar", "EG">>]
Aria     == [ShortName |-> "en-US-AriaNeural",     Locale |-> <<"en", "US">>]

VoicePool == {Dmitry, Svetlana, Ostap, Xiaoxiao, Salma, Aria}
NoLocale == <<>>

\* all lists of distinct voices of length n
RECURSIVE VoiceLists(_)
VoiceLists(n) ==
    IF n = 0 THEN {<<>>}
    ELSE {Append(l, v) : l \in VoiceLists(n - 1), v \in VoicePool}

Distinct(l) == \A i, j \in 1..Len(l) : i # j => l[i].ShortName # l[j].ShortName

Catalogs == UNION {{l \in VoiceLists(n) : Distinct(l)} : n \in 0..MaxCat}

(***************************************************************************)
(* Texts are lists of code points.                                         *)
(***************************************************************************)
LatinA    == 97       \* U+0061 a
CyrYa     == 1103     \* U+044F, the last letter of the lower-case range
CyrYi     == 1111     \* U+0457, Ukrainian yi: Cyrillic, outside the class searched
HanNi     == 20320    \* U+4F60
ArabSeen  == 1587     \* U+0633

Scripts == {CyrYa, CyrYi, HanNi, ArabSeen}

\* the code points of S in ascending order
RECURSIVE Ascending(_)
Ascending(S) ==
    IF S = {} THEN <<>>
    ELSE LET m == CHOOSE x \in S : \A y \in S : x <= y
         IN  <<m>> \o Ascending(S \ {m})

\* the texts tried: a Latin letter followed by any choice of the other characters
\* (the searches of lines 44-46 depend only on which characters occur)
Texts == {<<LatinA>> \o Ascending(S) : S \in SUBSET Scripts}

\* the values of speaker_wav tried
Wavs == {None, "", NotARealVoice} \cup {v.ShortName : v \in VoicePool}

\* str.lower() on the subtags that occur
Lower(s) ==
    CASE s = "RU" -> "ru" [] s = "UA" -> "ua" [] s = "CN" -> "cn"
      [] s = "EG" -> "eg" [] s = "US" -> "us" [] OTHER -> s

\* voice_locale.split("-")[0].lower()
VoiceLang(locale) == Lower(locale[1])

\* voice_locale.startswith(prefix + "-"): the first subtag is prefix and a hyphen follows
StartsWith(locale, prefix) == Len(locale) >= 2 /\ locale[1] = prefix

\* re.search over the class U+0430-U+044F, U+0410-U+042F, U+0451, U+0401
HasCyrillic(text) ==
    \E i \in 1..Len(text) :
        \/ text[i] \in 1072..1103
        \/ text[i] \in 1040..1071
        \/ text[i] = 1105
        \/ text[i] = 1025

\* re.search over U+4E00-U+9FFF
HasChinese(text) == \E i \in 1..Len(text) : text[i] \in 19968..40959

\* re.search over U+0600-U+06FF
HasArabic(text) == \E i \in 1..Len(text) : text[i] \in 1536..1791

\* faulty variant: the empty string is not taken for None
InitialVoiceKeepsEmpty(speaker_wav) ==
    IF speaker_wav = None THEN DefaultVoice ELSE speaker_wav

\* speaker_wav == "" -> None; voice = speaker_wav or default
InitialVoice(speaker_wav) ==
    IF speaker_wav = "" \/ speaker_wav = None THEN DefaultVoice ELSE speaker_wav

\* keys of valid_voices = {v["ShortName"]: v for v in voices}
ValidVoices(voices) == {voices[i].ShortName : i \in 1..Len(voices)}

\* valid_voices[voice]["Locale"]: a later entry of the same name overwrites an earlier one
LocaleOf(voices, voice) ==
    LET I == {i \in 1..Len(voices) : voices[i].ShortName = voice}
        last == CHOOSE i \in I : \A j \in I : j <= i
    IN  voices[last].Locale

\* [v for v in voices if v["Locale"].startswith(prefix + "-")]
VoicesWithPrefix(voices, prefix) ==
    SelectSeq(voices, LAMBDA v : StartsWith(v.Locale, prefix))

(***************************************************************************)
(* Exceptions are records of their class and the parts of their message.   *)
(***************************************************************************)
NoError == [cls |-> "", msg |-> <<>>]

\* ValueError(f"Invalid voice ID: {voice}. ...")
InvalidVoiceError(voice) == [cls |-> "ValueError", msg |-> <<"Invalid voice ID", voice>>]

\* ValueError(f"Language mismatch: Detected {script} text but selected voice
\* '{voice}' is {voice_locale}, and no {script} voices are available.")
MismatchError(script, voice, voice_locale) ==
    [cls |-> "ValueError", msg |-> <<"Language mismatch", script, voice>> \o voice_locale]

(***************************************************************************)
(* Voice resolution.  w is the working state of the locals voice,          *)
(* voice_locale and voice_lang; a raised exception ends the coroutine, so  *)
(* every later block leaves w alone.                                       *)
(***************************************************************************)
\* faulty variant: with no voice of the family, fall back to the default voice
AutoSwitchDefault(w, voices, prefix, script) ==
    LET found == VoicesWithPrefix(voices, prefix)
    IN  IF found # <<>>
        THEN [w EXCEPT !.voice = found[1].ShortName,
                       !.voice_locale = found[1].Locale,
                       !.voice_lang = VoiceLang(found[1].Locale)]
        ELSE [w EXCEPT !.voice = DefaultVoice,
                       !.voice_locale = Dmitry.Locale,
                       !.voice_lang = VoiceLang(Dmitry.Locale)]

\* faulty variant: the last voice of the family is taken, not the first
AutoSwitchLast(w, voices, prefix, script) ==
    LET found == VoicesWithPrefix(voices, prefix)
    IN  IF found # <<>>
        THEN [w EXCEPT !.voice = found[Len(found)].ShortName,
                       !.voice_locale = found[Len(found)].Locale,
                       !.voice_lang = VoiceLang(found[Len(found)].Locale)]
        ELSE [w EXCEPT !.error = MismatchError(script, w.voice, w.voice_locale)]

\* one "if has_X and not compatible:" block
AutoSwitch(w, voices, prefix, script) ==
    LET found == VoicesWithPrefix(voices, prefix)
    IN  IF found # <<>>
        THEN [w EXCEPT !.voice = found[1].ShortName,
                       !.voice_locale = found[1].Locale,
                       !.voice_lang = VoiceLang(found[1].Locale)]
        ELSE [w EXCEPT !.error = MismatchError(script, w.voice, w.voice_locale)]

\* faulty variant: Cyrillic text is not looked for
CyrillicBlockSkipped(w, voices, text) == w

CyrillicBlock(w, voices, text) ==
    IF w.error # NoError THEN w
    ELSE IF HasCyrillic(text) /\ w.voice_lang \notin {"ru", "uk", "be"}
         THEN AutoSwitch(w, voices, "ru", "Russian/Cyrillic")
         ELSE w

ChineseBlock(w, voices, text) ==
    IF w.error # NoError THEN w
    ELSE IF HasChinese(text)
            /\ ~(StartsWith(w.voice_locale, "zh") \/ StartsWith(w.voice_locale, "cmn"))
         THEN AutoSwitch(w, voices, "zh", "Chinese")
         ELSE w

\* faulty variant: Arabic text is not looked for
ArabicBlockSkipped(w, voices, text) == w

ArabicBlock(w, voices, text) ==
    IF w.error # NoError THEN w
    ELSE IF HasArabic(text) /\ ~StartsWith(w.voice_locale, "ar")
         THEN AutoSwitch(w, voices, "ar", "Arabic")
         ELSE w

\* lines 40-90: the three blocks in their order, from a voice of the catalog
ResolveFrom(voices, voice, text) ==
    LET w0 == [voice |-> voice,
               voice_locale |-> LocaleOf(voices, voice),
               voice_lang |-> VoiceLang(LocaleOf(voices, voice)),
               error |-> NoError]
    IN  ArabicBlock(ChineseBlock(CyrillicBlock(w0, voices, text), voices, text),
                    voices, text)

\* faulty variant: an unknown voice id is replaced by the first voice of the catalog
ResolveVoiceLenient(voices, speaker_wav, text) ==
    LET voice == InitialVoice(speaker_wav)
    IN  IF voice \notin ValidVoices(voices)
        THEN IF voices = <<>>
             THEN [voice |-> voice, voice_locale |-> NoLocale, voice_lang |-> "",
                   error |-> InvalidVoiceError(voice)]
             ELSE ResolveFrom(voices, voices[1].ShortName, text)
        ELSE ResolveFrom(voices, voice, text)

\* lines 26-90 after list_voices() has returned voices
ResolveVoice(voices, speaker_wav, text) ==
    LET voice == InitialVoice(speaker_wav)
    IN  IF voice \notin ValidVoices(voices)
        THEN [voice |-> voice, voice_locale |-> NoLocale, voice_lang |-> "",
              error |-> InvalidVoiceError(voice)]
        ELSE ResolveFrom(voices, voice, text)

(***************************************************************************)
(* Rate.  speed is held in thousandths (1.25 is 1250), so speed - 1.0      *)
(* times 100 is (speed - 1000) / 10; int() truncates toward zero.  The     *)
(* rounding error of the double-precision product is not modelled: it only *)
(* moves more values below the integer that int() then cuts off.           *)
(***************************************************************************)
One == 1000

\* int(x / d) for d > 0
TruncDiv(x, d) == IF x >= 0 THEN x \div d ELSE -((-x) \div d)

\* rate_pct = int((speed - 1.0) * 100)
RatePct(speed) == TruncDiv(speed - One, 10)

DigitChars == <<"0", "1", "2", "3", "4", "5", "6", "7", "8", "9">>

RECURSIVE Digits(_)
Digits(n) ==
    IF n < 10 THEN <<DigitChars[n + 1]>>
    ELSE Digits(n \div 10) \o <<DigitChars[(n % 10) + 1]>>

\* f"{rate_pct:+d}%"
RateStr(rate_pct) ==
    IF rate_pct >= 0
    THEN <<"+">> \o Digits(rate_pct) \o <<"%">>
    ELSE <<"-">> \o Digits(-rate_pct) \o <<"%">>

(***************************************************************************)
(* The output directory: files tells of each name whether a file of that   *)
(* name exists, and its size.                                              *)
(***************************************************************************)
Absent == [exists |-> FALSE, size |-> 0]

\* os.path.exists(path)
Exists(files, p) == files[p].exists

\* os.path.getsize(path)
GetSize(files, p) == files[p].size

\* os.remove(path)
Remove(files, p) == [files EXCEPT ![p] = Absent]

\* a file of the given size at p (created or overwritten)
WriteFile(files, p, size) == [files EXCEPT ![p] = [exists |-> TRUE, size |-> size]]

\* faulty variant: a name is picked without O_EXCL
AnyPaths(files) == Paths

\* tempfile.mkstemp(dir=output_dir) opens with O_CREAT | O_EXCL: any name not in use
FreshPaths(files) == {p \in Paths : ~Exists(files, p)}

\* faulty variant: the except blocks forget the file
CleanUpForgets(files, p) == files

\* faulty variant: the except blocks empty the whole output directory
CleanUpDirectory(files, p) == [q \in Paths |-> Absent]

\* "if os.path.exists(path): os.remove(path)" of both except blocks
CleanUp(files, p) == IF Exists(files, p) THEN Remove(files, p) ELSE files

(***************************************************************************)
(* The provider.  What communicate.save(path) does to the file and how it  *)
(* ends is the provider's choice.                                          *)
(***************************************************************************)
NoAudioReceived == [cls |-> "NoAudioReceived", msg |-> <<"No audio was received">>]
ProviderError   == [cls |-> "Exception", msg |-> <<"Connection timeout">>]
CancelledError  == [cls |-> "CancelledError", msg |-> <<>>]
ListVoicesError == [cls |-> "ClientError", msg |-> <<"Cannot connect to host">>]

\* classes that "except Exception" catches; asyncio.CancelledError derives from
\* BaseException only
IsException(e) == e.cls \in {"Exception", "ValueError", "NoAudioReceived", "ClientError"}

SaveOutcomes ==
    [exc : {NoError, NoAudioReceived, ProviderError},
     exists : BOOLEAN, size : 0..MaxSize]

\* the state of the file when save() is abandoned by a cancellation
CancelOutcomes == [exc : {CancelledError}, exists : {TRUE}, size : 0..MaxSize]

AfterProvider(files, p, o) ==
    IF o.exists THEN WriteFile(files, p, o.size) ELSE Remove(files, p)

\* faulty variant: the size of the file is not looked at
TryBodyNoSizeCheck(files, p, o) ==
    LET f1 == AfterProvider(files, p, o)
    IN  IF o.exc # NoError THEN [files |-> f1, exc |-> o.exc]
        ELSE IF ~Exists(f1, p)
        THEN [files |-> f1,
              exc |-> [cls |-> "Exception", msg |-> <<"Audio file was not created">>]]
        ELSE [files |-> f1, exc |-> NoError]

\* the body of the try block, lines 106-117; o is what save() did
TryBody(files, p, o) ==
    LET f1 == AfterProvider(files, p, o)
    IN  IF o.exc # NoError THEN [files |-> f1, exc |-> o.exc]
        ELSE IF ~Exists(f1, p)
        THEN [files |-> f1,
              exc |-> [cls |-> "Exception", msg |-> <<"Audio file was not created">>]]
        ELSE IF GetSize(f1, p) = 0
        THEN [files |-> Remove(f1, p),
              exc |-> [cls |-> "Exception", msg |-> <<"Audio file is empty (0 bytes)">>]]
        ELSE [files |-> f1, exc |-> NoError]

\* the except blocks, lines 119-142; t is the outcome of the try body
Handlers(t, p, voice, voice_locale) ==
    IF t.exc = NoError THEN t
    ELSE IF t.exc.cls = "NoAudioReceived"
    THEN [files |-> CleanUp(t.files, p),
          exc |-> [cls |-> "ValueError",
                   msg |-> <<"No audio received from Edge TTS service", voice>>
                           \o voice_locale]]
    ELSE IF IsException(t.exc)
    THEN [files |-> CleanUp(t.files, p),
          exc |-> [cls |-> "Exception", msg |-> <<"Edge-TTS error">> \o t.exc.msg]]
    ELSE t

\* lines 105-144 once save() has ended with o
FinishSave(files, p, o, voice, voice_locale) ==
    Handlers(TryBody(files, p, o), p, voice, voice_locale)

(***************************************************************************)
(* State.                                                                  *)
(***************************************************************************)
VARIABLES
    catalog,    \* what edge_tts.list_voices() answers now
    fs,         \* the files of output_dir
    task,       \* the locals of each call of generate_audio_file
    log         \* history: calls made to the provider and steps passed

vars == <<catalog, fs, task, log>>

NewTask ==
    [pc |-> "idle", text |-> <<>>, speaker_wav |-> None, speed |-> One,
     voices |-> <<>>, voice |-> "", voice_locale |-> NoLocale,
     rate_str |-> <<>>, path |-> NoPath, result |-> NoPath, error |-> NoError]

\* list_voices: calls of edge_tts.list_voices(); save: the calls of save() with their
\* arguments; steps: the steps passed; save_exc: what save() raised
NewLog == [list_voices |-> 0, save |-> <<>>, steps |-> <<>>, save_exc |-> NoError]

InitWith(C) ==
    /\ catalog \in C
    /\ fs = [p \in Paths |-> Absent]
    /\ task = [r \in Reqs |-> NewTask]
    /\ log = [r \in Reqs |-> NewLog]

\* lines 23-33: the call runs up to "await edge_tts.list_voices()"
Call(r, text, speaker_wav, speed) ==
    /\ task[r].pc = "idle"
    /\ task' = [task EXCEPT ![r].pc = "list_voices",
                            ![r].text = text,
                            ![r].speaker_wav = speaker_wav,
                            ![r].speed = speed]
    /\ log' = [log EXCEPT ![r].list_voices = @ + 1]
    /\ UNCHANGED <<catalog, fs>>

\* line 33 raises: the exception leaves generate_audio_file as it is
ListVoicesFails(r) ==
    /\ task[r].pc = "list_voices"
    /\ task' = [task EXCEPT ![r].pc = "raised", ![r].error = ListVoicesError]
    /\ log' = [log EXCEPT ![r].steps = Append(@, "ERROR")]
    /\ UNCHANGED <<catalog, fs>>

\* faulty variant: the output file is made before the voice is resolved
ListVoicesReturnsFileFirst(r) ==
    /\ task[r].pc = "list_voices"
    /\ LET voices == catalog
           w == ResolveVoice(voices, task[r].speaker_wav, task[r].text)
           rate_str == RateStr(RatePct(task[r].speed))
       IN  \E p \in FreshPaths(fs) :
               /\ fs' = WriteFile(fs, p, 0)
               /\ IF w.error # NoError
                  THEN /\ task' = [task EXCEPT ![r].pc = "raised",
                                               ![r].voices = voices,
                                               ![r].voice = w.voice,
                                               ![r].voice_locale = w.voice_locale,
                                               ![r].error = w.error]
                       /\ log' = [log EXCEPT
                              ![r].steps = @ \o <<"CATALOG_FETCHED", "ERROR">>]
                  ELSE /\ task' = [task EXCEPT ![r].pc = "save",
                                               ![r].voices = voices,
                                               ![r].voice = w.voice,
                                               ![r].voice_locale = w.voice_locale,
                                               ![r].rate_str = rate_str,
                                               ![r].path = p]
                       /\ log' = [log EXCEPT
                              ![r].save = Append(@, [text |-> task[r].text,
                                                     voice |-> w.voice,
                                                     rate |-> rate_str, path |-> p]),
                              ![r].steps = @ \o <<"CATALOG_FETCHED", "VOICE_RESOLVED",
                                                  "RATE_COMPUTED", "PROVIDER_INVOKED">>]
    /\ UNCHANGED catalog

\* lines 33-106: list_voices() returns; the coroutine runs up to
\* "await communicate.save(path)" or to the first raise
ListVoicesReturns(r) ==
    /\ task[r].pc = "list_voices"
    /\ LET voices == catalog
           w == ResolveVoice(voices, task[r].speaker_wav, task[r].text)
           rate_str == RateStr(RatePct(task[r].speed))
       IN  IF w.error # NoError
           THEN /\ task' = [task EXCEPT ![r].pc = "raised",
                                        ![r].voices = voices,
                                        ![r].voice = w.voice,
                                        ![r].voice_locale = w.voice_locale,
                                        ![r].error = w.error]
                /\ log' = [log EXCEPT ![r].steps = @ \o <<"CATALOG_FETCHED", "ERROR">>]
                /\ UNCHANGED fs
           ELSE \E p \in FreshPaths(fs) :
                /\ fs' = WriteFile(fs, p, 0)
                /\ task' = [task EXCEPT ![r].pc = "save",
                                        ![r].voices = voices,
                                        ![r].voice = w.voice,
                                        ![r].voice_locale = w.voice_locale,
                                        ![r].rate_str = rate_str,
                                        ![r].path = p]
                /\ log' = [log EXCEPT
                       ![r].save = Append(@, [text |-> task[r].text, voice |-> w.voice,
                                              rate |-> rate_str, path |-> p]),
                       ![r].steps = @ \o <<"CATALOG_FETCHED", "VOICE_RESOLVED",
                                           "RATE_COMPUTED", "PROVIDER_INVOKED">>]
    /\ UNCHANGED catalog

\* faulty variant: a request whose save() raised an exception calls save() once more
ResumeRetries(r, o) ==
    LET t == FinishSave(fs, task[r].path, o, task[r].voice, task[r].voice_locale)
    IN  /\ UNCHANGED catalog
        /\ IF t.exc = NoError
           THEN /\ fs' = t.files
                /\ task' = [task EXCEPT ![r].pc = "returned",
                                        ![r].result = task[r].path]
                /\ log' = [log EXCEPT ![r].steps = @ \o <<"ARTIFACT_VALIDATED", "DONE">>,
                                       ![r].save_exc = o.exc]
           ELSE IF Len(log[r].save) < 2 /\ o.exc # NoError /\ IsException(o.exc)
           THEN /\ fs' = WriteFile(t.files, task[r].path, 0)
                /\ task' = task
                /\ log' = [log EXCEPT ![r].save = Append(@, @[1]),
                                       ![r].steps = Append(@, "PROVIDER_INVOKED")]
           ELSE /\ fs' = t.files
                /\ task' = [task EXCEPT
                       ![r].pc = IF t.exc = CancelledError THEN "cancelled" ELSE "raised",
                       ![r].error = t.exc]
                /\ log' = [log EXCEPT ![r].steps = Append(@, "ERROR"),
                                       ![r].save_exc = o.exc]

\* the coroutine resumes from save() with outcome o and runs to its end
Resume(r, o) ==
    LET t == FinishSave(fs, task[r].path, o, task[r].voice, task[r].voice_locale)
    IN  /\ fs' = t.files
        /\ IF t.exc = NoError
           THEN /\ task' = [task EXCEPT ![r].pc = "returned",
                                        ![r].result = task[r].path]
                /\ log' = [log EXCEPT ![r].steps = @ \o <<"ARTIFACT_VALIDATED", "DONE">>,
                                       ![r].save_exc = o.exc]
           ELSE /\ task' = [task EXCEPT
                       ![r].pc = IF t.exc = CancelledError THEN "cancelled" ELSE "raised",
                       ![r].error = t.exc]
                /\ log' = [log EXCEPT ![r].steps = Append(@, "ERROR"),
                                       ![r].save_exc = o.exc]
        /\ UNCHANGED catalog

\* lines 106-144: save() returns or raises
SaveEnds(r) ==
    /\ task[r].pc = "save"
    /\ \E o \in SaveOutcomes : Resume(r, o)

\* the caller cancels the task while it waits in save(): CancelledError is
\* raised at line 106
CancelInSave(r) ==
    /\ task[r].pc = "save"
    /\ \E o \in CancelOutcomes : Resume(r, o)

\* the caller cancels the task while it waits in list_voices()
CancelInListVoices(r) ==
    /\ task[r].pc = "list_voices"
    /\ task' = [task EXCEPT ![r].pc = "cancelled", ![r].error = CancelledError]
    /\ log' = [log EXCEPT ![r].steps = Append(@, "ERROR")]
    /\ UNCHANGED <<catalog, fs>>

\* the provider's catalog is outside the program and changes at any time
CatalogChanges(c) ==
    /\ catalog # c
    /\ catalog' = c
    /\ UNCHANGED <<fs, task, log>>

(***************************************************************************)
(* Specifications.                                                         *)
(***************************************************************************)
\* the request up to the call of the provider
Resolve(R, T, W, S) ==
    \/ \E r \in R, text \in T, speaker_wav \in W, speed \in S :
           Call(r, text, speaker_wav, speed)
    \/ \E r \in R : ListVoicesFails(r)
    \/ \E r \in R : ListVoicesReturns(r)

\* concurrent requests against a catalog that changes, with cancellation
MainTexts == {<<CyrYa>>}
MainWavs == {None, Aria.ShortName}
MainCatalogs == {<<Dmitry, Aria>>, <<Aria>>}

Init == InitWith(MainCatalogs)
Next ==
    \/ Resolve(Reqs, MainTexts, MainWavs, {One})
    \/ \E r \in Reqs : SaveEnds(r)
    \/ \E r \in Reqs : CancelInSave(r)
    \/ \E r \in Reqs : CancelInListVoices(r)
    \/ \E c \in MainCatalogs : CatalogChanges(c)
Spec == Init /\ [][Next]_vars

\* voice resolution of one request over every catalog, text and voice id
InitVoice == InitWith(Catalogs)
NextVoice == Resolve({1}, Texts, Wavs, {One})
SpecVoice == InitVoice /\ [][NextVoice]_vars

\* the rate of one request over every speed, in thousandths
MaxSpeed == 3000
Speeds == 0..MaxSpeed
InitRate == InitWith({<<Dmitry>>})
NextRate == Resolve({1}, {<<LatinA>>}, {None}, Speeds)
SpecRate == InitRate /\ [][NextRate]_vars

(***************************************************************************)
(* Properties.                                                             *)
(***************************************************************************)
StepsOf(r) == {log[r].steps[i] : i \in 1..Len(log[r].steps)}

\* the request has got its catalog
Fetched(r) == "CATALOG_FETCHED" \in StepsOf(r)

\* the error kinds of the specification, read off the exception raised
IsUnknownVoice(e) == e.cls = "ValueError" /\ e.msg # <<>> /\ e.msg[1] = "Invalid voice ID"
IsLanguageMismatch(e) ==
    e.cls = "ValueError" /\ e.msg # <<>> /\ e.msg[1] = "Language mismatch"

\* C1: a request that has allocated its output file and ends in an error raised by
\* the provider (no audio, or any other exception) or by the validation (file
\* missing, file empty) leaves no file at its path when the error leaves the call.
NoDanglingArtifact ==
    [][\A r \in Reqs :
          (task[r].pc = "save" /\ task'[r].pc = "raised")
              => ~Exists(fs', task[r].path)]_vars

\* C1 happens: save() wrote bytes, raised NoAudioReceived, and the file is gone
NoAudioCleanedUp ==
    \E r \in Reqs :
        /\ task[r].pc = "raised"
        /\ task[r].path # NoPath
        /\ log[r].save_exc = NoAudioReceived
        /\ ~Exists(fs, task[r].path)

\* C2: a path returned by generate_audio_file names a file that exists and is
\* not empty.
ReturnedArtifactNonEmpty ==
    \A r \in Reqs :
        task[r].pc = "returned"
            => /\ task[r].result = task[r].path
               /\ task[r].result # NoPath
               /\ Exists(fs, task[r].result)
               /\ GetSize(fs, task[r].result) > 0

\* C2 happens: a request has returned its path
SomeRequestReturned ==
    \E r \in Reqs : task[r].pc = "returned" /\ GetSize(fs, task[r].result) = MaxSize

RuUkBe == {"ru", "uk", "be"}

\* a letter of the Cyrillic block, U+0400-U+04FF
IsCyrillicLetter(c) == c \in 1024..1279

\* a letter of the class the code searches: U+0410-U+044F, U+0401, U+0451
IsSearchedCyrillic(c) == c \in 1040..1103 \/ c = 1025 \/ c = 1105
IsHan(c) == c \in 19968..40959
IsArabic(c) == c \in 1536..1791

\* the voice asked for is in the snapshot and its language is none of ru, uk, be
AskedForeignVoice(r) ==
    \E i \in 1..Len(task[r].voices) :
        /\ task[r].voices[i].ShortName = task[r].speaker_wav
        /\ VoiceLang(task[r].voices[i].Locale) \notin RuUkBe

\* the provider is called with the working voice, whose language is ru, uk or be
SynthesisWithRuUkBe(r) ==
    /\ task[r].pc = "save"
    /\ VoiceLang(task[r].voice_locale) \in RuUkBe
    /\ log[r].save[1].voice = task[r].voice

\* C3 as claimed: Cyrillic text (with or without Chinese or Arabic) and a voice
\* outside ru, uk, be end in a voice of ru, uk, be, or in LanguageMismatch, the
\* latter only when the catalog has no voice of ru, uk, be.
CyrillicSwitchesOrFails ==
    \A r \in Reqs :
        ( /\ Fetched(r)
          /\ \E i \in 1..Len(task[r].text) : IsCyrillicLetter(task[r].text[i])
          /\ AskedForeignVoice(r) )
        => \/ SynthesisWithRuUkBe(r)
           \/ /\ task[r].pc = "raised"
              /\ IsLanguageMismatch(task[r].error)
              /\ ~\E i \in 1..Len(task[r].voices) :
                      VoiceLang(task[r].voices[i].Locale) \in RuUkBe

\* C3 as amended: a text with a letter of the searched class and no Chinese or
\* Arabic character, and a voice outside ru, uk, be, end in a voice of ru, uk, be,
\* or in LanguageMismatch, the latter exactly when no locale of the catalog starts
\* with "ru-".
RussianTextSwitchesOrFails ==
    \A r \in Reqs :
        ( /\ Fetched(r)
          /\ \E i \in 1..Len(task[r].text) : IsSearchedCyrillic(task[r].text[i])
          /\ \A i \in 1..Len(task[r].text) :
                 ~IsHan(task[r].text[i]) /\ ~IsArabic(task[r].text[i])
          /\ AskedForeignVoice(r) )
        => LET NoRu == \A i \in 1..Len(task[r].voices) :
                           ~(Len(task[r].voices[i].Locale) >= 2
                             /\ task[r].voices[i].Locale[1] = "ru")
           IN  \/ ~NoRu /\ SynthesisWithRuUkBe(r)
               \/ /\ NoRu
                  /\ task[r].pc = "raised"
                  /\ IsLanguageMismatch(task[r].error)

\* C3 happens: an English voice was asked for a Russian text and the request goes
\* to the provider with the first Russian voice of the catalog
SwitchedToRussian ==
    \E r \in Reqs :
        /\ task[r].pc = "save"
        /\ task[r].speaker_wav = Aria.ShortName
        /\ task[r].text = <<LatinA, CyrYa>>
        /\ task[r].voices = <<Aria, Svetlana, Dmitry>>
        /\ task[r].voice = Svetlana.ShortName

\* C4: a voice id that is not in the fetched catalog ends the request with
\* UnknownVoice, whatever the text; save() is not called and no file is made.
UnknownVoiceRejected ==
    \A r \in Reqs :
        ( /\ Fetched(r)
          /\ task[r].speaker_wav \notin {None, ""}
          /\ \A i \in 1..Len(task[r].voices) :
                 task[r].voices[i].ShortName # task[r].speaker_wav )
        => /\ task[r].pc = "raised"
           /\ IsUnknownVoice(task[r].error)
           /\ task[r].error.msg[2] = task[r].speaker_wav
           /\ log[r].save = <<>>
           /\ task[r].path = NoPath
           /\ \A p \in Paths : ~Exists(fs, p)

\* C4 happens: an unknown id with a text of all three scripts against a catalog
\* that holds a voice of each
UnknownVoiceWithHints ==
    \E r \in Reqs :
        /\ task[r].pc = "raised"
        /\ task[r].speaker_wav = NotARealVoice
        /\ task[r].text = <<LatinA, CyrYa, ArabSeen, HanNi>>
        /\ task[r].voices = <<Dmitry, Xiaoxiao, Salma>>

\* the digit a character stands for
DigitValue(ch) == CHOOSE d \in 0..9 : DigitChars[d + 1] = ch

RECURSIVE DecimalValue(_)
DecimalValue(ds) ==
    IF ds = <<>> THEN 0
    ELSE DecimalValue(SubSeq(ds, 1, Len(ds) - 1)) * 10 + DigitValue(ds[Len(ds)])

\* the signed integer a rate string "+25%" encodes
RateValue(rs) ==
    LET n == DecimalValue(SubSeq(rs, 2, Len(rs) - 1))
    IN  IF rs[1] = "-" THEN -n ELSE n

\* round(x / d) for d > 0, ties to the even neighbour
RoundDiv(x, d) ==
    LET q == x \div d
        rem == x % d
    IN  IF 2 * rem < d THEN q
        ELSE IF 2 * rem > d THEN q + 1
        ELSE IF q % 2 = 0 THEN q ELSE q + 1

\* C5: the rate string passed to the provider has an explicit sign and encodes
\* round((speed - 1.0) * 100).
RateIsRounded ==
    \A r \in Reqs :
        task[r].pc = "save"
            => LET rs == log[r].save[1].rate
               IN  /\ rs = task[r].rate_str
                   /\ rs[1] \in {"+", "-"}
                   /\ rs[Len(rs)] = "%"
                   /\ RateValue(rs) = RoundDiv(task[r].speed - One, 10)

\* the request has a path of its own in output_dir
HoldsArtifact(r) ==
    task[r].path # NoPath /\ task[r].pc \in {"save", "returned", "cancelled"}

\* C6: two requests whose artifacts exist at the same time hold different paths,
\* and the artifact of a request that has returned is not empty.
DistinctOutputPaths ==
    /\ \A r1, r2 \in Reqs :
           (r1 # r2 /\ HoldsArtifact(r1) /\ HoldsArtifact(r2))
               => task[r1].path # task[r2].path
    /\ \A r \in Reqs : HoldsArtifact(r) => Exists(fs, task[r].path)
    /\ \A r \in Reqs :
           task[r].pc = "returned" => GetSize(fs, task[r].path) > 0

\* C6 happens: two requests with the same inputs and the same catalog have both
\* returned
TwoEqualRequestsReturned ==
    \E r1, r2 \in Reqs :
        /\ r1 # r2
        /\ task[r1].pc = "returned" /\ task[r2].pc = "returned"
        /\ task[r1].text = task[r2].text
        /\ task[r1].speaker_wav = task[r2].speaker_wav
        /\ task[r1].speed = task[r2].speed
        /\ task[r1].voices = task[r2].voices

\* C7: a request calls list_voices() once, and the voice it passes to save() is
\* the id of a voice of the list that call returned.
VoiceFromSingleSnapshot ==
    \A r \in Reqs :
        /\ log[r].list_voices = IF task[r].pc = "idle" THEN 0 ELSE 1
        /\ \A k \in 1..Len(log[r].save) :
               \E i \in 1..Len(task[r].voices) :
                   task[r].voices[i].ShortName = log[r].save[k].voice

\* C7 happens: the request was switched to a voice of its snapshot, and the
\* provider's catalog has lost that voice while save() runs
CatalogChangedInFlight ==
    \E r \in Reqs :
        /\ task[r].pc = "save"
        /\ task[r].voice # task[r].speaker_wav
        /\ \A i \in 1..Len(catalog) : catalog[i].ShortName # task[r].voice

\* C8: a request cancelled while it waits in save() leaves no file at its path
\* once the cancellation has left the call.
CancelledSaveLeavesNoFile ==
    [][\A r \in Reqs :
          (task[r].pc = "save" /\ task'[r].pc = "cancelled")
              => ~Exists(fs', task[r].path)]_vars

StepOrder ==
    <<"CATALOG_FETCHED", "VOICE_RESOLVED", "RATE_COMPUTED", "PROVIDER_INVOKED",
      "ARTIFACT_VALIDATED", "DONE">>

IsPrefix(s, t) == Len(s) <= Len(t) /\ \A i \in 1..Len(s) : s[i] = t[i]

\* C9: the steps of a request are an initial part of the fixed order, ended by
\* the first error if there is one; save() is called at most once, and only after
\* the catalog fetch and the voice resolution of the request have succeeded.
StepsInOrderNoRetry ==
    \A r \in Reqs :
        LET s == log[r].steps
            n == Len(s)
        IN  /\ \/ IsPrefix(s, StepOrder)
               \/ /\ n > 0 /\ s[n] = "ERROR"
                  /\ n <= Len(StepOrder)
                  /\ IsPrefix(SubSeq(s, 1, n - 1), StepOrder)
            /\ task[r].pc = "returned" <=> s = StepOrder
            /\ task[r].pc \in {"raised", "cancelled"} <=> (n > 0 /\ s[n] = "ERROR")
            /\ Len(log[r].save) <= 1
            /\ Len(log[r].save) = Cardinality({i \in 1..n : s[i] = "PROVIDER_INVOKED"})
            /\ log[r].save # <<>>
                   => /\ IsPrefix(<<"CATALOG_FETCHED", "VOICE_RESOLVED">>, s)
                      /\ log[r].list_voices = 1

\* C9 happens: save() raised, the request ended in that error
ProviderFailedOnce ==
    \E r \in Reqs :
        /\ task[r].pc = "raised"
        /\ log[r].save_exc = ProviderError
        /\ Len(log[r].save) = 1

\* what tells one kind of error from another: the class of the exception and
\* the fixed head of its message
Kind(e) == <<e.cls, e.msg[1]>>

\* C10: the error of a request whose save() returned but left no file or an
\* empty file is of another kind than the error of a request whose save() raised.
EmptyArtifactIsItsOwnKind ==
    \A r1, r2 \in Reqs :
        ( /\ task[r1].pc = "raised" /\ task[r1].path # NoPath
          /\ log[r1].save_exc = NoError
          /\ task[r2].pc = "raised" /\ task[r2].path # NoPath
          /\ log[r2].save_exc = ProviderError )
        => Kind(task[r1].error) # Kind(task[r2].error)

\* the voice the caller asked for: the id given, or the default when it is None
\* or the empty string
AskedVoice(r) ==
    IF task[r].speaker_wav \in {None, ""} THEN "ru-RU-DmitryNeural"
    ELSE task[r].speaker_wav

\* the locales the snapshot of the request gives for a voice id
LocalesOf(r, id) ==
    {task[r].voices[i].Locale : i \in {j \in 1..Len(task[r].voices) :
                                          task[r].voices[j].ShortName = id}}

\* C11: a LanguageMismatch error names the voice the caller asked for (or the
\* default) and the locale of that voice, also when an earlier block has switched
\* the working voice.
MismatchNamesAskedVoice ==
    \A r \in Reqs :
        (task[r].pc = "raised" /\ IsLanguageMismatch(task[r].error))
            => /\ task[r].error.msg[3] = AskedVoice(r)
               /\ SubSeq(task[r].error.msg, 4, Len(task[r].error.msg))
                      \in LocalesOf(r, AskedVoice(r))

\* the hints in their fixed order, and the locale prefix of the family of each
Hints == <<"cyrillic", "chinese", "arabic">>
Family == <<"ru", "zh", "ar">>

\* the hint is detected in the text
Detected(h, text) ==
    \E i \in 1..Len(text) :
        CASE h = "cyrillic" -> IsSearchedCyrillic(text[i])
          [] h = "chinese"  -> IsHan(text[i])
          [] h = "arabic"   -> IsArabic(text[i])

\* the locale starts with the prefix and a hyphen
HasPrefix(locale, prefix) == Len(locale) >= 2 /\ locale[1] = prefix

\* a voice of this locale is compatible with the hint
Compatible(h, locale) ==
    CASE h = "cyrillic" -> locale # <<>> /\ Lower(locale[1]) \in RuUkBe
      [] h = "chinese"  -> HasPrefix(locale, "zh") \/ HasPrefix(locale, "cmn")
      [] h = "arabic"   -> HasPrefix(locale, "ar")

NoVoice == [ShortName |-> "", Locale |-> <<>>]

\* the first voice of the list whose locale starts with the prefix
FirstOfFamily(voices, prefix) ==
    LET I == {i \in 1..Len(voices) : HasPrefix(voices[i].Locale, prefix)}
    IN  IF I = {} THEN NoVoice
        ELSE voices[CHOOSE i \in I : \A j \in I : i <= j]

\* the voice C12 describes after the hints k, k+1, ... have been looked at, the
\* working voice being cur; NoVoice when a switch finds no voice of the family
RECURSIVE VoiceAfterHints(_, _, _, _)
VoiceAfterHints(voices, cur, text, k) ==
    IF k > Len(Hints) \/ cur = NoVoice THEN cur
    ELSE IF Detected(Hints[k], text) /\ ~Compatible(Hints[k], cur.Locale)
         THEN VoiceAfterHints(voices, FirstOfFamily(voices, Family[k]), text, k + 1)
         ELSE VoiceAfterHints(voices, cur, text, k + 1)

\* the request has fetched a catalog that holds the voice asked for
AskedVoiceKnown(r) ==
    Fetched(r) /\ \E i \in 1..Len(task[r].voices) :
                      task[r].voices[i].ShortName = AskedVoice(r)

AskedVoiceRecord(r) ==
    CHOOSE v \in {task[r].voices[i] : i \in 1..Len(task[r].voices)} :
        v.ShortName = AskedVoice(r)

\* C12: hint by hint in the order Cyrillic, Chinese, Arabic, a detected hint the
\* working voice is incompatible with makes the first catalog voice of the hint's
\* family the working voice, against which the later hints are looked at; the
\* request goes to the provider with the voice so reached, and fails with
\* LanguageMismatch when a family has no voice.
SwitchesToFirstOfFamily ==
    \A r \in Reqs :
        AskedVoiceKnown(r)
            => LET v == VoiceAfterHints(task[r].voices, AskedVoiceRecord(r),
                                        task[r].text, 1)
               IN  IF v = NoVoice
                   THEN task[r].pc = "raised" /\ IsLanguageMismatch(task[r].error)
                   ELSE /\ task[r].pc = "save"
                        /\ task[r].voice = v.ShortName
                        /\ task[r].voice_locale = v.Locale
                        /\ log[r].save[1].voice = v.ShortName

\* C12 happens: Chinese text with the voice ru-RU-DmitryNeural goes to the
\* provider with the zh- voice of the catalog
ChineseTextSwitched ==
    \E r \in Reqs :
        /\ task[r].pc = "save"
        /\ task[r].text = <<LatinA, HanNi>>
        /\ task[r].speaker_wav = Dmitry.ShortName
        /\ task[r].voices = <<Dmitry, Salma, Xiaoxiao>>
        /\ task[r].voice = Xiaoxiao.ShortName

\* C13: when the voice asked for (the default for None and for the empty string)
\* is in the catalog and compatible with every detected hint, the request goes
\* to the provider with exactly that voice.
CompatibleVoiceKept ==
    \A r \in Reqs :
        ( /\ AskedVoiceKnown(r)
          /\ \A k \in 1..Len(Hints) :
                 Detected(Hints[k], task[r].text)
                     => Compatible(Hints[k], AskedVoiceRecord(r).Locale) )
        => /\ task[r].pc = "save"
           /\ task[r].voice = AskedVoice(r)
           /\ task[r].voice_locale = AskedVoiceRecord(r).Locale
           /\ log[r].save[1].voice = AskedVoice(r)

\* C13 happens: the empty string with a Russian text goes to the provider with
\* the default voice
EmptyIdKeepsDefault ==
    \E r \in Reqs :
        /\ task[r].pc = "save"
        /\ task[r].speaker_wav = ""
        /\ task[r].text = <<LatinA, CyrYa>>
        /\ task[r].voices = <<Svetlana, Xiaoxiao, Dmitry>>
        /\ log[r].save[1].voice = "ru-RU-DmitryNeural"

\* the detected hints of a text, as indices of Hints
DetectedHints(text) == {k \in 1..Len(Hints) : Detected(Hints[k], text)}

\* C15: a request that goes to the provider with a text of at least one detected
\* hint has a voice compatible with the last detected hint of the fixed order.
LastHintCompatible ==
    \A r \in Reqs :
        (task[r].pc = "save" /\ DetectedHints(task[r].text) # {})
            => LET last == CHOOSE k \in DetectedHints(task[r].text) :
                               \A j \in DetectedHints(task[r].text) : j <= k
               IN  /\ Compatible(Hints[last], task[r].voice_locale)
                   /\ task[r].voice_locale \in LocalesOf(r, task[r].voice)
                   /\ log[r].save[1].voice = task[r].voice

\* C15 happens: a text of Cyrillic and Arabic goes to the provider with an Arabic
\* voice, which is incompatible with the earlier Cyrillic hint
EarlierHintLeftIncompatible ==
    \E r \in Reqs :
        /\ task[r].pc = "save"
        /\ Detected("cyrillic", task[r].text)
        /\ Detected("arabic", task[r].text)
        /\ task[r].speaker_wav = Aria.ShortName
        /\ Compatible("arabic", task[r].voice_locale)
        /\ ~Compatible("cyrillic", task[r].voice_locale)

\* C14: a request that ends in an error before the call of save() (list_voices()
\* failed, unknown voice, language mismatch) leaves output_dir as it was: it makes
\* no file and removes none.
EarlyErrorLeavesDirectory ==
    [][\A r \in Reqs :
          (task[r].pc = "list_voices" /\ task'[r].pc = "raised")
              => /\ fs' = fs
                 /\ task'[r].path = NoPath
                 /\ log'[r].save = <<>>
                 /\ \/ task'[r].error = ListVoicesError
                    \/ IsUnknownVoice(task'[r].error)
                    \/ IsLanguageMismatch(task'[r].error)]_vars

\* C14 happens: a request has failed with LanguageMismatch or with an unknown
\* voice, having made no file, and the file another request returned is there
EarlyErrorBesideArtifact ==
    \E r1, r2 \in Reqs :
        /\ task[r1].pc = "raised" /\ task[r1].path = NoPath
        /\ IsLanguageMismatch(task[r1].error) \/ IsUnknownVoice(task[r1].error)
        /\ task[r2].pc = "returned"
        /\ Exists(fs, task[r2].result)
        /\ \A p \in Paths : Exists(fs, p) => p = task[r2].result

\* C16: a step of one request leaves the file of every other request that holds
\* an artifact as it is, in existence and in size.
OnlyOwnPathTouched ==
    [][\A r \in Reqs :
          (HoldsArtifact(r) /\ task'[r] = task[r])
              => fs'[task[r].path] = fs[task[r].path]]_vars

\* C16 happens: a request has failed in save() and removed its file, and another
\* has returned a file that is there and not empty
FailureBesideSuccess ==
    \E r1, r2 \in Reqs :
        /\ task[r1].pc = "raised" /\ task[r1].path # NoPath
        /\ log[r1].save_exc # NoError
        /\ task[r2].pc = "returned"
        /\ task[r2].path # task[r1].path
        /\ ~Exists(fs, task[r1].path)
        /\ Exists(fs, task[r2].result) /\ GetSize(fs, task[r2].result) > 0

====
